---- MODULE Spec2Model ----
(***************************************************************************)
(* A model of the text path of the ConvI pipeline:                         *)
(*   app/text_pipeline/__init__.py     (_parse_turns, run_text_pipeline)   *)
(*   app/text_pipeline/nlp_processor.py (clean_text, process_text)         *)
(*                                                                         *)
(* A Python str is a sequence of one-character strings, so that strip,     *)
(* split, lower, upper, the label pattern and the id format are computed   *)
(* character by character as the code computes them.                       *)
(***************************************************************************)
EXTENDS Integers, Sequences, FiniteSets, TLC

VARIABLES
    transcript,        \* the argument of run_text_pipeline: its lines
    pc,                \* position of the run in run_text_pipeline
    raw_turns,         \* list[tuple[str, str]] returned by _parse_turns
    turn_langs,        \* list of detect_language results
    call_dominant_lang,\* result of dominant_language ("" before the call)
    idx,               \* loop variable of the enumerate (0-based)
    role_counter,      \* Counter: role key -> number of ids allocated
    seen_speakers,     \* dict: label -> speaker_id
    processed_turns,   \* list[ProcessedTurn]
    all_entities,      \* list[NamedEntity], extended per turn
    output,            \* the returned TextPipelineOutput, or NoOutput
    pipeline_cache,    \* languages whose pipeline the lru_cache holds
    speaker_id_log,    \* history: value of the local speaker_id per iteration
    nlp_outcome_log,   \* history: what the Stanza collaborator did per turn
    calls,             \* history: collaborator calls in the order made
    runs,              \* concurrent calls of run_text_pipeline: their locals
    loads,             \* history: executions of the body of _get_pipeline
    lru_cache,         \* the lru_cache of _get_pipeline, least recent first
    load_history,      \* history: per language asked for, whether a load succeeded
    last_call,         \* history: the last process_text call and its load
    db_call,           \* the storage function being executed and its input
    db_pc,             \* position inside the storage function
    db_session,        \* records added to the open database session
    db_rows,           \* records the database has committed
    db_result,         \* what the storage function returned
    db_log,            \* history: the database operations of the call
    fn_name,           \* a pure function under application
    fn_arg,            \* its argument
    fn_result          \* its results so far

\* The locals of one run_text_pipeline call and its collaborator history
run_vars == <<transcript, pc, raw_turns, turn_langs, call_dominant_lang, idx,
              role_counter, seen_speakers, processed_turns, all_entities,
              output, pipeline_cache, speaker_id_log, nlp_outcome_log, calls>>

\* Concurrent runs sharing the process
proc_vars == <<runs, loads>>

\* Sequences of process_text calls on the lru_cache of _get_pipeline
cache_vars == <<lru_cache, load_history, last_call>>

\* The storage layer
storage_vars == <<db_call, db_pc, db_session, db_rows, db_result, db_log>>

\* Application of a pure function
fn_vars == <<fn_name, fn_arg, fn_result>>

vars == <<run_vars, proc_vars, cache_vars, storage_vars, fn_vars>>

(***************************************************************************)
(* Characters                                                              *)
(***************************************************************************)
Uppers == <<"A","B","C","D","E","F","G","H","I","J","K","L","M",
            "N","O","P","Q","R","S","T","U","V","W","X","Y","Z">>
Lowers == <<"a","b","c","d","e","f","g","h","i","j","k","l","m",
            "n","o","p","q","r","s","t","u","v","w","x","y","z">>

Range(s) == {s[i] : i \in DOMAIN s}

\* [A-Za-z] of the label pattern
Letters == Range(Uppers) \cup Range(Lowers)
IsLetter(c) == c \in Letters

\* Names of single characters that have no printable form.
\* US is U+001F: whitespace for str.isspace and \s, no line boundary for
\* splitlines.
US == "<US>"
\* U+0301 COMBINING ACUTE ACCENT; NFC composes "e" U+0301 into U+00E9.
COMBINING_ACUTE == "<U+0301>"
E_ACUTE == "<U+00E9>"
\* U+0007 BEL: a control character that is no whitespace for \s
BEL == "<BEL>"

\* str.isspace / \s on the characters of the model
Spaces == {" ", "\t", "\n", "\r", "\f", US}
IsSpace(c) == c \in Spaces

\* str.lower and str.upper, per character
ToLower == [c \in Range(Uppers) |->
               Lowers[CHOOSE i \in DOMAIN Uppers : Uppers[i] = c]]
ToUpper == [c \in Range(Lowers) |->
               Uppers[CHOOSE i \in DOMAIN Lowers : Lowers[i] = c]]
LowerChar(c) == IF c \in DOMAIN ToLower THEN ToLower[c] ELSE c
UpperChar(c) == IF c \in DOMAIN ToUpper THEN ToUpper[c] ELSE c
Lower(s) == [i \in DOMAIN s |-> LowerChar(s[i])]
Upper(s) == [i \in DOMAIN s |-> UpperChar(s[i])]

(***************************************************************************)
(* str methods                                                             *)
(***************************************************************************)
RECURSIVE LStrip(_)
LStrip(s) == IF s # <<>> /\ IsSpace(Head(s)) THEN LStrip(Tail(s)) ELSE s

RECURSIVE RStrip(_)
RStrip(s) == IF s # <<>> /\ IsSpace(s[Len(s)])
             THEN RStrip(SubSeq(s, 1, Len(s) - 1)) ELSE s

\* str.strip()
Strip(s) == RStrip(LStrip(s))

\* sep.join(list)
RECURSIVE Join(_, _)
Join(list, sep) ==
    IF list = <<>> THEN <<>>
    ELSE IF Len(list) = 1 THEN list[1]
    ELSE list[1] \o sep \o Join(Tail(list), sep)

\* str.split(): the maximal runs of non-whitespace characters
RECURSIVE SplitFrom(_, _, _)
SplitFrom(s, word, acc) ==
    IF s = <<>> THEN (IF word = <<>> THEN acc ELSE Append(acc, word))
    ELSE IF IsSpace(Head(s))
         THEN SplitFrom(Tail(s), <<>>,
                        IF word = <<>> THEN acc ELSE Append(acc, word))
         ELSE SplitFrom(Tail(s), Append(word, Head(s)), acc)
Split(s) == SplitFrom(s, <<>>, <<>>)

\* str(n) for n >= 0
Digits == <<"0","1","2","3","4","5","6","7","8","9">>
RECURSIVE Str(_)
Str(n) == IF n < 10 THEN <<Digits[n + 1]>>
          ELSE Str(n \div 10) \o <<Digits[(n % 10) + 1]>>

(***************************************************************************)
(* 1. Turn parser                                                          *)
(***************************************************************************)
\* Index of the first ":" of line, 0 if there is none
FirstColon(line) ==
    IF \E i \in DOMAIN line : line[i] = ":"
    THEN CHOOSE i \in DOMAIN line :
            line[i] = ":" /\ \A j \in 1..(i - 1) : line[j] # ":"
    ELSE 0

\* _TURN_RE.match(line) is not None.  ^\s*([A-Za-z][A-Za-z\s]*?)\s*:\s*(.*)
\* Group 1 holds letters and whitespace only, so the ":" the pattern meets
\* is the first one of the line, and everything before it (after leading
\* whitespace) is a letter followed by letters and whitespace.
TurnReMatches(line) ==
    LET body == LStrip(line)
        p == FirstColon(body)
    IN  /\ p > 1
        /\ IsLetter(body[1])
        /\ \A j \in 2..(p - 1) : IsLetter(body[j]) \/ IsSpace(body[j])

\* m.group(1): the lazy group stops at the shortest prefix after which
\* \s*: matches, i.e. the text before the colon without trailing whitespace
TurnReGroup1(line) ==
    LET body == LStrip(line)
    IN  RStrip(SubSeq(body, 1, FirstColon(body) - 1))

\* m.group(2): the rest of the line after ":" and the whitespace after it
TurnReGroup2(line) ==
    LET body == LStrip(line)
    IN  LStrip(SubSeq(body, FirstColon(body) + 1, Len(body)))

\* The state of the loop of _parse_turns before its first line
ParseInit == [turns |-> <<>>, has_label |-> FALSE,
              current_label |-> <<>>, current_lines |-> <<>>]

\* Mutant: the lines of a turn are joined without the space
FlushTurnNoSeparator(st) ==
    IF st.has_label /\ st.current_lines # <<>>
    THEN Append(st.turns,
                <<st.current_label, Strip(Join(st.current_lines, <<>>))>>)
    ELSE st.turns

\* "if current_label is not None and current_lines: turns.append(...)"
FlushTurn(st) ==
    IF st.has_label /\ st.current_lines # <<>>
    THEN Append(st.turns,
                <<st.current_label, Strip(Join(st.current_lines, <<" ">>))>>)
    ELSE st.turns

\* One iteration of "for raw_line in transcript.splitlines()"
ParseLine(st, raw_line) ==
    LET line == Strip(raw_line)
    IN  IF line = <<>> THEN st
        ELSE IF TurnReMatches(line)
        THEN [turns |-> FlushTurn(st), has_label |-> TRUE,
              current_label |-> Strip(TurnReGroup1(line)),
              current_lines |-> <<Strip(TurnReGroup2(line))>>]
        ELSE IF st.has_label
             THEN [st EXCEPT !.current_lines = Append(@, line)]
             ELSE st

RECURSIVE ParseLoop(_, _)
ParseLoop(st, lines) ==
    IF lines = <<>> THEN st
    ELSE ParseLoop(ParseLine(st, Head(lines)), Tail(lines))

\* Mutant: the open turn is not flushed at the end of the input
ParseTurnsNoFinalFlush(lines) == ParseLoop(ParseInit, lines).turns

\* _parse_turns(transcript); lines is transcript.splitlines()
_parse_turns(lines) == FlushTurn(ParseLoop(ParseInit, lines))

(***************************************************************************)
(* Roles and speaker ids                                                   *)
(***************************************************************************)
\* Role (app.schemas), each member by its value
Role_agent == <<"a","g","e","n","t">>
Role_customer == <<"c","u","s","t","o","m","e","r">>
Role_unknown == <<"u","n","k","n","o","w","n">>

AgentAliases == {<<"a","g","e","n","t">>,
                 <<"r","e","p","r","e","s","e","n","t","a","t","i","v","e">>,
                 <<"r","e","p">>,
                 <<"b","a","n","k","e","r">>,
                 <<"o","f","f","i","c","e","r">>,
                 <<"e","x","e","c","u","t","i","v","e">>,
                 <<"s","u","p","p","o","r","t">>}
CustomerAliases == {<<"c","u","s","t","o","m","e","r">>,
                    <<"c","l","i","e","n","t">>,
                    <<"c","a","l","l","e","r">>,
                    <<"u","s","e","r">>}

\* _ROLE_MAP: dict[str, Role]
_ROLE_MAP == [k \in AgentAliases \cup CustomerAliases |->
                IF k \in AgentAliases THEN Role_agent ELSE Role_customer]

\* Mutant: the label is looked up as written
ResolveRoleAsWritten(label) ==
    IF Strip(label) \in DOMAIN _ROLE_MAP THEN _ROLE_MAP[Strip(label)]
    ELSE Role_unknown

\* _ROLE_MAP.get(label.lower().strip(), Role.unknown)
_resolve_role(label) ==
    LET key == Strip(Lower(label))
    IN  IF key \in DOMAIN _ROLE_MAP THEN _ROLE_MAP[key] ELSE Role_unknown

\* Counter.__getitem__: a missing key counts 0
CounterGet(counter, key) == IF key \in DOMAIN counter THEN counter[key] ELSE 0

\* Counter after "counter[key] += 1"
CounterIncrement(counter, key) ==
    [k \in DOMAIN counter \cup {key} |->
        IF k = key THEN CounterGet(counter, key) + 1 ELSE counter[k]]

\* Mutant: the index is taken after the increment
FormatSpeakerIdOneBased(key, n) == key \o <<"_">> \o Str(n + 1)

\* f"{key}_{idx}"
FormatSpeakerId(key, n) == key \o <<"_">> \o Str(n)

\* Mutant: the role counter is read and not incremented
MakeSpeakerIdNoIncrement(role, counter) ==
    [speaker_id |-> FormatSpeakerId(Upper(role), CounterGet(counter, Upper(role))),
     role_counter |-> counter]

\* _make_speaker_id(role, role_counter): the id returned and the counter left
_make_speaker_id(role, counter) ==
    LET key == Upper(role)
        n == CounterGet(counter, key)
    IN  [speaker_id |-> FormatSpeakerId(key, n),
         role_counter |-> CounterIncrement(counter, key)]

\* dict after "d[key] = value"
DictSet(d, key, value) ==
    [k \in DOMAIN d \cup {key} |-> IF k = key THEN value ELSE d[k]]

\* Mutant: the registry is not consulted, every turn allocates an id
AllocateSpeakerNoReuse(label, counter, seen) ==
    LET made == _make_speaker_id(_resolve_role(label), counter)
    IN  [role |-> _resolve_role(label),
         speaker_id |-> made.speaker_id,
         role_counter |-> made.role_counter,
         seen_speakers |-> DictSet(seen, label, made.speaker_id)]

\* Mutant: role_counter is one module-level Counter that all calls of
\* run_text_pipeline increment
SharedRoleCounter ==
    [k \in UNION {DOMAIN runs[r].role_counter : r \in DOMAIN runs} |->
        CHOOSE m \in {CounterGet(runs[r].role_counter, k) : r \in DOMAIN runs} :
            \A r \in DOMAIN runs : CounterGet(runs[r].role_counter, k) <= m]
AllocateSpeakerSharedCounter(label, counter, seen) ==
    IF label \notin DOMAIN seen
    THEN LET made == _make_speaker_id(_resolve_role(label), SharedRoleCounter)
         IN  [role |-> _resolve_role(label),
              speaker_id |-> made.speaker_id,
              role_counter |-> made.role_counter,
              seen_speakers |-> DictSet(seen, label, made.speaker_id)]
    ELSE [role |-> _resolve_role(label),
          speaker_id |-> seen[label],
          role_counter |-> counter,
          seen_speakers |-> seen]

\* Lines 149-156 of run_text_pipeline: allocate or reuse the speaker id
AllocateSpeaker(label, counter, seen) ==
    IF label \notin DOMAIN seen
    THEN LET made == _make_speaker_id(_resolve_role(label), counter)
         IN  [role |-> _resolve_role(label),
              speaker_id |-> made.speaker_id,
              role_counter |-> made.role_counter,
              seen_speakers |-> DictSet(seen, label, made.speaker_id)]
    ELSE [role |-> _resolve_role(label),
          speaker_id |-> seen[label],
          role_counter |-> counter,
          seen_speakers |-> seen]

(***************************************************************************)
(* NLP processor (nlp_processor.py)                                        *)
(***************************************************************************)
STANZA_SUPPORTED == {"en", "hi", "zh", "fr", "de", "es", "ar", "ja"}

_resolve_nlp_lang(detected_lang) ==
    IF detected_lang \in STANZA_SUPPORTED THEN detected_lang ELSE "en"

\* unicodedata.normalize("NFC", text) on the characters of the model:
\* "e" followed by U+0301 composes to U+00E9, nothing else changes
RECURSIVE NormalizeNFC(_)
NormalizeNFC(s) ==
    IF Len(s) < 2 THEN s
    ELSE IF s[1] = "e" /\ s[2] = COMBINING_ACUTE
         THEN <<E_ACUTE>> \o NormalizeNFC(SubSeq(s, 3, Len(s)))
         ELSE <<s[1]>> \o NormalizeNFC(Tail(s))

\* [^\S\n\r\t ] : whitespace other than newline, return, tab and space
IsOtherSpace(c) == IsSpace(c) /\ c \notin {"\n", "\r", "\t", " "}

\* re.sub(r"[^\S\n\r\t ]+", " ", s): every maximal run of such characters
\* becomes one space; in_run tells that the run has begun
RECURSIVE SubOtherSpaceRuns(_, _)
SubOtherSpaceRuns(s, in_run) ==
    IF s = <<>> THEN <<>>
    ELSE IF IsOtherSpace(Head(s))
         THEN (IF in_run THEN <<>> ELSE <<" ">>)
                 \o SubOtherSpaceRuns(Tail(s), TRUE)
         ELSE <<Head(s)>> \o SubOtherSpaceRuns(Tail(s), FALSE)

\* re.sub(r"\s+", " ", s): every maximal run of whitespace becomes one space
RECURSIVE SubSpaceRuns(_, _)
SubSpaceRuns(s, in_run) ==
    IF s = <<>> THEN <<>>
    ELSE IF IsSpace(Head(s))
         THEN (IF in_run THEN <<>> ELSE <<" ">>)
                 \o SubSpaceRuns(Tail(s), TRUE)
         ELSE <<Head(s)>> \o SubSpaceRuns(Tail(s), FALSE)

\* clean_text(text)
clean_text(text) ==
    LET t1 == NormalizeNFC(text)
        t2 == SubOtherSpaceRuns(t1, FALSE)
        t3 == SubSpaceRuns(t2, FALSE)
    IN  Strip(t3)

\* Mutant: the fallback does not split the cleaned text
FallbackResultUnsplit(cleaned) ==
    [cleaned_text |-> cleaned,
     lemmatized_text |-> cleaned,
     tokens |-> <<cleaned>>,
     entities |-> <<>>]

\* The except branch of process_text (lines 122-129)
FallbackResult(cleaned) ==
    [cleaned_text |-> cleaned,
     lemmatized_text |-> cleaned,
     tokens |-> Split(cleaned),
     entities |-> <<>>]

\* Concatenation of a list of lists
RECURSIVE Flatten(_)
Flatten(lists) == IF lists = <<>> THEN <<>>
                  ELSE Head(lists) \o Flatten(Tail(lists))

\* Lines 131-161 of process_text: tokens, lemmas and entities of a doc
DocResult(cleaned, doc) ==
    LET words == Flatten([i \in DOMAIN doc |-> doc[i].words])
        ents == Flatten([i \in DOMAIN doc |-> doc[i].ents])
        lemmas == [i \in DOMAIN words |->
                     IF words[i].lemma # <<>> THEN words[i].lemma
                     ELSE words[i].text]
    IN  [cleaned_text |-> cleaned,
         lemmatized_text |-> Join(lemmas, <<" ">>),
         tokens |-> [i \in DOMAIN words |-> words[i].text],
         entities |-> [i \in DOMAIN ents |->
                         [text |-> ents[i].text, label |-> ents[i].type,
                          start_char |-> ents[i].start_char,
                          end_char |-> ents[i].end_char]]]

(***************************************************************************)
(* What the Stanza collaborator can do on one call.  _get_pipeline returns *)
(* the cached pipeline, or loads one (lru_cache keeps it) or raises (then  *)
(* nothing is cached); nlp(cleaned) raises or returns a doc.               *)
(***************************************************************************)
Word(text, lemma) == [text |-> text, lemma |-> lemma]
Ent(text, type, start_char, end_char) ==
    [text |-> text, type |-> type,
     start_char |-> start_char, end_char |-> end_char]

\* The doc the collaborator returns when it succeeds: two sentences; a word
\* without lemma; the same entity text in two cases and under two types.
SampleDoc == << [words |-> <<Word(<<"H","i">>, <<"h","i">>), Word(<<"r","a">>, <<>>)>>,
                 ents |-> <<Ent(<<"r","a">>, "PERSON", 3, 5)>>],
                [words |-> <<Word(<<"R","a">>, <<"R","a">>)>>,
                 ents |-> <<Ent(<<"R","a">>, "ORG", 0, 2),
                            Ent(<<"R","a">>, "PERSON", 0, 2)>>] >>
Docs == {SampleDoc}

NlpOutcomes(cache, nlp_lang) ==
    (IF nlp_lang \in cache THEN {} ELSE {[kind |-> "load_failed"]})
    \cup {[kind |-> "nlp_failed"]}
    \cup {[kind |-> "doc", doc |-> d] : d \in Docs}

\* process_text(text, lang) under one outcome of the collaborator
process_text(text, lang, outcome) ==
    LET cleaned == clean_text(text)
    IN  IF outcome.kind = "doc" THEN DocResult(cleaned, outcome.doc)
        ELSE FallbackResult(cleaned)

\* The lru_cache of _get_pipeline after the call
CacheAfter(cache, nlp_lang, outcome) ==
    IF outcome.kind = "load_failed" THEN cache ELSE cache \cup {nlp_lang}

(***************************************************************************)
(* Inputs                                                                  *)
(***************************************************************************)
\* Longest transcript, in lines
MaxLines == 3

\* Raw lines a transcript is made of
LineAgent == <<"A","g","e","n","t",":"," ","H","i">>
LineAgentLower == <<"a","g","e","n","t"," ",":">>
LineCustomer == <<" ","C","u","s","t","o","m","e","r",":","\t","e",COMBINING_ACUTE," "," ","k"," ">>
LineContinuation == <<"s","o"," "," ","9",":","x">>
LineBlank == <<" ","\t">>

RawLines == {LineAgent, LineAgentLower, LineCustomer, LineContinuation,
             LineBlank}

\* transcript.splitlines() of the transcripts of at most MaxLines lines
Transcripts == UNION {[1..n -> RawLines] : n \in 0..MaxLines}

\* What detect_language and dominant_language may return
DetectResults == {<<"hi", 1>>, <<"ml", 0>>}
DominantResults == {"hi", "ml"}

(***************************************************************************)
(* 2-4. Pipeline orchestrator: run_text_pipeline                           *)
(***************************************************************************)
NoOutput == <<>>

\* The parts of the process that take no step while one run is followed
ProcIdle == runs = <<>> /\ loads = <<>>
CacheIdle == lru_cache = <<>> /\ load_history = <<>> /\ last_call = <<>>
StorageIdle ==
    /\ db_call = <<>> /\ db_pc = "idle" /\ db_session = <<>>
    /\ db_rows = <<>> /\ db_result = <<>> /\ db_log = <<>>
FnIdle == fn_name = "" /\ fn_arg = <<>> /\ fn_result = <<>>

Init ==
    /\ ProcIdle /\ CacheIdle /\ StorageIdle /\ FnIdle
    /\ transcript \in Transcripts
    /\ pc = "start"
    /\ raw_turns = <<>>
    /\ turn_langs = <<>>
    /\ call_dominant_lang = ""
    /\ idx = 0
    /\ role_counter = <<>>
    /\ seen_speakers = <<>>
    /\ processed_turns = <<>>
    /\ all_entities = <<>>
    /\ output = NoOutput
    /\ pipeline_cache = {}
    /\ speaker_id_log = <<>>
    /\ nlp_outcome_log = <<>>
    /\ calls = <<>>

\* Mutant: the empty list of turns is not checked
ParseStageNoCheck(turns) == "detect"

\* Mutant: the dominant language is computed first, the detection stage is
\* skipped
ParseStageDominantFirst(turns) == IF turns = <<>> THEN "error" ELSE "dominant"

\* Stage 1 (lines 123-129): parse; no turn is the ValueError
ParseStage(turns) == IF turns = <<>> THEN "error" ELSE "detect"

Parse ==
    /\ pc = "start"
    /\ UNCHANGED <<proc_vars, cache_vars, storage_vars, fn_vars>>
    /\ raw_turns' = _parse_turns(transcript)
    /\ pc' = ParseStage(raw_turns')
    /\ UNCHANGED <<transcript, turn_langs, call_dominant_lang, idx,
                   role_counter, seen_speakers, processed_turns, all_entities,
                   output, pipeline_cache, speaker_id_log, nlp_outcome_log,
                   calls>>

\* Stage 2 (lines 132-134): one detect_language call of the comprehension
DetectLanguage ==
    /\ pc = "detect"
    /\ UNCHANGED <<proc_vars, cache_vars, storage_vars, fn_vars>>
    /\ \E r \in DetectResults : turn_langs' = Append(turn_langs, r)
    /\ calls' = Append(calls, [fn |-> "detect_language",
                               turn |-> Len(turn_langs)])
    /\ pc' = IF Len(turn_langs') = Len(raw_turns) THEN "dominant" ELSE "detect"
    /\ UNCHANGED <<transcript, raw_turns, call_dominant_lang, idx,
                   role_counter, seen_speakers, processed_turns, all_entities,
                   output, pipeline_cache, speaker_id_log, nlp_outcome_log>>

\* Lines 135-142: dominant_language, then the empty lists of stage 3
DominantLanguage ==
    /\ pc = "dominant"
    /\ UNCHANGED <<proc_vars, cache_vars, storage_vars, fn_vars>>
    /\ call_dominant_lang' \in DominantResults
    /\ calls' = Append(calls, [fn |-> "dominant_language", turn |-> -1])
    /\ processed_turns' = <<>>
    /\ all_entities' = <<>>
    /\ role_counter' = <<>>
    /\ seen_speakers' = <<>>
    /\ idx' = 0
    /\ pc' = "loop"
    /\ UNCHANGED <<transcript, raw_turns, turn_langs, output, pipeline_cache,
                   speaker_id_log, nlp_outcome_log>>

\* Mutant: turn_index counts from 1
MakeTurnOneBased(i, label, role, text, lang, conf, nlp_result) ==
    [turn_index |-> i + 1,
     speaker_label |-> label,
     role |-> role,
     original_text |-> text,
     cleaned_text |-> nlp_result.cleaned_text,
     lemmatized_text |-> nlp_result.lemmatized_text,
     language |-> lang,
     language_confidence |-> conf,
     entities |-> nlp_result.entities,
     tokens |-> nlp_result.tokens]

\* ProcessedTurn(...) of lines 160-171
MakeTurn(i, label, role, text, lang, conf, nlp_result) ==
    [turn_index |-> i,
     speaker_label |-> label,
     role |-> role,
     original_text |-> text,
     cleaned_text |-> nlp_result.cleaned_text,
     lemmatized_text |-> nlp_result.lemmatized_text,
     language |-> lang,
     language_confidence |-> conf,
     entities |-> nlp_result.entities,
     tokens |-> nlp_result.tokens]

\* Lines 144-173: one iteration of the loop over zip(raw_turns, turn_langs)
ProcessTurn ==
    /\ pc = "loop"
    /\ UNCHANGED <<proc_vars, cache_vars, storage_vars, fn_vars>>
    /\ LET label == raw_turns[idx + 1][1]
           text == raw_turns[idx + 1][2]
           lang == turn_langs[idx + 1][1]
           conf == turn_langs[idx + 1][2]
           alloc == AllocateSpeaker(label, role_counter, seen_speakers)
           nlp_lang == _resolve_nlp_lang(lang)
       IN  \E outcome \in NlpOutcomes(pipeline_cache, nlp_lang) :
             LET nlp_result == process_text(text, lang, outcome)
             IN  /\ role_counter' = alloc.role_counter
                 /\ seen_speakers' = alloc.seen_speakers
                 /\ speaker_id_log' = Append(speaker_id_log, alloc.speaker_id)
                 /\ pipeline_cache' = CacheAfter(pipeline_cache, nlp_lang, outcome)
                 /\ nlp_outcome_log' = Append(nlp_outcome_log, outcome.kind)
                 /\ calls' = Append(calls, [fn |-> "process_text", turn |-> idx])
                 /\ processed_turns' =
                       Append(processed_turns,
                              MakeTurn(idx, label, alloc.role, text, lang, conf,
                                       nlp_result))
                 /\ all_entities' = all_entities \o nlp_result.entities
    /\ idx' = idx + 1
    /\ pc' = IF idx + 1 = Len(raw_turns) THEN "dedupe" ELSE "loop"
    /\ UNCHANGED <<transcript, raw_turns, turn_langs, call_dominant_lang,
                   output>>

\* Mutant: the key keeps the case of the text
EntityKeyCaseSensitive(ent) == <<ent.text, ent.label>>

\* key = (ent.text.lower(), ent.label)
EntityKey(ent) == <<Lower(ent.text), ent.label>>

\* Mutant: a later entity of a seen key replaces the kept one
RECURSIVE DedupeKeepLast(_, _, _)
DedupeKeepLast(ents, seen_ent_keys, unique_entities) ==
    IF ents = <<>> THEN unique_entities
    ELSE LET key == EntityKey(Head(ents))
         IN  IF key \notin seen_ent_keys
             THEN DedupeKeepLast(Tail(ents), seen_ent_keys \cup {key},
                                 Append(unique_entities, Head(ents)))
             ELSE DedupeKeepLast(Tail(ents), seen_ent_keys,
                                 [i \in DOMAIN unique_entities |->
                                    IF EntityKey(unique_entities[i]) = key
                                    THEN Head(ents)
                                    ELSE unique_entities[i]])

\* Lines 176-182: keep the first entity of every key
RECURSIVE Dedupe(_, _, _)
Dedupe(ents, seen_ent_keys, unique_entities) ==
    IF ents = <<>> THEN unique_entities
    ELSE LET key == EntityKey(Head(ents))
         IN  IF key \notin seen_ent_keys
             THEN Dedupe(Tail(ents), seen_ent_keys \cup {key},
                         Append(unique_entities, Head(ents)))
             ELSE Dedupe(Tail(ents), seen_ent_keys, unique_entities)

\* Mutant: speakers are counted by role
UniqueSpeakersByRole(seen) ==
    Cardinality({_resolve_role(l) : l \in DOMAIN seen})

\* unique_speakers = len(seen_speakers)
UniqueSpeakers(seen) == Cardinality(DOMAIN seen)

\* Lines 175-196: deduplicate the entities and return the output
Finish ==
    /\ pc = "dedupe"
    /\ UNCHANGED <<proc_vars, cache_vars, storage_vars, fn_vars>>
    /\ output' = << [raw_transcript |-> transcript,
                     dominant_language |-> call_dominant_lang,
                     turns |-> processed_turns,
                     all_entities |-> Dedupe(all_entities, {}, <<>>),
                     speaker_count |-> UniqueSpeakers(seen_speakers)] >>
    /\ pc' = "done"
    /\ UNCHANGED <<transcript, raw_turns, turn_langs, call_dominant_lang, idx,
                   role_counter, seen_speakers, processed_turns, all_entities,
                   pipeline_cache, speaker_id_log, nlp_outcome_log, calls>>

Next == Parse \/ DetectLanguage \/ DominantLanguage \/ ProcessTurn \/ Finish

Spec == Init /\ [][Next]_vars

(***************************************************************************)
(* The run when the language detector may fail.  The detector is a         *)
(* collaborator outside these files; that a call of it can fail is what    *)
(* the specification says of it (section 7), and a failing Python call     *)
(* raises.  Lines 132-135 of run_text_pipeline sit in no try block, so the *)
(* exception leaves run_text_pipeline.                                     *)
(***************************************************************************)
DetectorOutcomes == {"returns", "raises"}

\* Lines 132-134: a detect_language call of the comprehension raises
DetectLanguageRaises ==
    /\ pc = "detect"
    /\ "raises" \in DetectorOutcomes
    /\ calls' = Append(calls, [fn |-> "detect_language",
                               turn |-> Len(turn_langs)])
    /\ pc' = "raised"
    /\ UNCHANGED <<transcript, raw_turns, turn_langs, call_dominant_lang, idx,
                   role_counter, seen_speakers, processed_turns, all_entities,
                   output, pipeline_cache, speaker_id_log, nlp_outcome_log>>
    /\ UNCHANGED <<proc_vars, cache_vars, storage_vars, fn_vars>>

\* Line 135: the dominant_language call raises
DominantLanguageRaises ==
    /\ pc = "dominant"
    /\ "raises" \in DetectorOutcomes
    /\ calls' = Append(calls, [fn |-> "dominant_language", turn |-> -1])
    /\ pc' = "raised"
    /\ UNCHANGED <<transcript, raw_turns, turn_langs, call_dominant_lang, idx,
                   role_counter, seen_speakers, processed_turns, all_entities,
                   output, pipeline_cache, speaker_id_log, nlp_outcome_log>>
    /\ UNCHANGED <<proc_vars, cache_vars, storage_vars, fn_vars>>

NextDetectorFails ==
    \/ Parse
    \/ DetectLanguage
    \/ DetectLanguageRaises
    \/ DominantLanguage
    \/ DominantLanguageRaises
    \/ ProcessTurn
    \/ Finish

SpecDetectorFails == Init /\ [][NextDetectorFails]_vars

(***************************************************************************)
(* The lru_cache of _get_pipeline (nlp_processor.py, line 34)              *)
(***************************************************************************)
\* @lru_cache(maxsize=8)
LRU_MAXSIZE == 8

\* The cache is the sequence of its keys, the least recently used first
CacheHas(cache, key) == \E i \in DOMAIN cache : cache[i] = key

\* A hit makes the entry the most recently used
CacheHit(cache, key) ==
    Append(SelectSeq(cache, LAMBDA k : k # key), key)

\* Mutant: the cache is taken to be full one entry early
CacheStoreEvictsEarly(cache, key) ==
    IF CacheHas(cache, key) THEN cache
    ELSE IF Len(cache) >= LRU_MAXSIZE - 1 THEN Append(Tail(cache), key)
    ELSE Append(cache, key)

\* The result of a call of the wrapped function is stored: nothing changes
\* if the key was stored while the function ran, and a full cache drops its
\* least recently used entry
CacheStore(cache, key) ==
    IF CacheHas(cache, key) THEN cache
    ELSE IF Len(cache) >= LRU_MAXSIZE THEN Append(Tail(cache), key)
    ELSE Append(cache, key)

\* No step of the single run followed by Spec
RunIdle ==
    /\ transcript = <<>> /\ pc = "idle" /\ raw_turns = <<>>
    /\ turn_langs = <<>> /\ call_dominant_lang = "" /\ idx = 0
    /\ role_counter = <<>> /\ seen_speakers = <<>>
    /\ processed_turns = <<>> /\ all_entities = <<>> /\ output = NoOutput
    /\ pipeline_cache = {} /\ speaker_id_log = <<>>
    /\ nlp_outcome_log = <<>> /\ calls = <<>>

(***************************************************************************)
(* A sequence of process_text calls in one process, each with whatever     *)
(* language code the detector gave (lines 116-121 of nlp_processor.py)     *)
(***************************************************************************)
\* Codes handed to process_text: the supported ones and one that is not
DetectedLangs == STANZA_SUPPORTED \cup {"ml"}

InitCache ==
    /\ CacheIdle
    /\ RunIdle /\ ProcIdle /\ StorageIdle /\ FnIdle

\* load_history after a load of nlp_lang that succeeded or not
LoadRecorded(history, nlp_lang, succeeded) ==
    DictSet(history, nlp_lang,
            succeeded \/ (nlp_lang \in DOMAIN history /\ history[nlp_lang]))

\* process_text(text, lang) whose _get_pipeline(nlp_lang) is a cache hit
ProcessTextCached ==
    /\ \E lang \in DetectedLangs :
          LET nlp_lang == _resolve_nlp_lang(lang)
          IN  /\ CacheHas(lru_cache, nlp_lang)
              /\ lru_cache' = CacheHit(lru_cache, nlp_lang)
              /\ last_call' = [lang |-> lang, nlp_lang |-> nlp_lang,
                               load |-> "none"]
    /\ UNCHANGED <<load_history, run_vars, proc_vars, storage_vars, fn_vars>>

\* process_text(text, lang) whose _get_pipeline(nlp_lang) misses: the body
\* of _get_pipeline runs, and its pipeline is stored unless it raised
ProcessTextLoads ==
    /\ \E lang \in DetectedLangs :
          LET nlp_lang == _resolve_nlp_lang(lang)
          IN  /\ ~CacheHas(lru_cache, nlp_lang)
              /\ \E outcome \in NlpOutcomes({}, nlp_lang) :
                    LET failed == outcome.kind = "load_failed"
                    IN  /\ lru_cache' = IF failed THEN lru_cache
                                        ELSE CacheStore(lru_cache, nlp_lang)
                        /\ load_history' =
                              LoadRecorded(load_history, nlp_lang, ~failed)
                        /\ last_call' =
                              [lang |-> lang, nlp_lang |-> nlp_lang,
                               load |-> IF failed THEN "failed" ELSE "loaded"]
    /\ UNCHANGED <<run_vars, proc_vars, storage_vars, fn_vars>>

NextCache == ProcessTextCached \/ ProcessTextLoads

SpecCache == InitCache /\ [][NextCache]_vars

(***************************************************************************)
(* Storage layer (storage/__init__.py): save_session, save_turns,          *)
(* save_analytics, log_event.  Each opens a session, adds or merges its    *)
(* records, commits and leaves the with block, all inside one try; every   *)
(* database operation may fail.                                            *)
(***************************************************************************)
\* Most turns handed to one save_turns call
MaxStoredTurns == 2

\* The Python values None, True and False
None == "None"
True == "True"
False == "False"

\* A ProcessedTurn as run_text_pipeline builds it (schemas.py, lines 25-35)
StoredProcessedTurn ==
    MakeTurn(0, <<"A","g","e","n","t">>, Role_agent, <<"H","i">>, "hi", 1,
             FallbackResult(<<"H","i">>))

\* A turn object that has every attribute save_turns reads (lines 161-167)
StoredAnnotatedTurn ==
    [speaker_id |-> <<"A","G","E","N","T","_","0">>, role |-> Role_agent,
     original_text |-> <<"H","i">>, language |-> "hi", emotion |-> None,
     start_time |-> None, end_time |-> None]

StoredTurns == {StoredProcessedTurn, StoredAnnotatedTurn}

\* The calls of the storage functions, with their arguments
StorageCalls ==
    {[fn |-> "save_session", session_id |-> "s1",
      domain |-> "financial_banking", input_type |-> "text"]}
    \cup {[fn |-> "save_turns", session_id |-> "s1", turns |-> ts] :
             ts \in UNION {[1..n -> StoredTurns] : n \in 0..MaxStoredTurns}}
    \cup {[fn |-> "save_analytics", session_id |-> "s1", analysis |-> a] :
             a \in {[is_dict |-> TRUE, risk_score |-> 1],
                     [is_dict |-> FALSE]}}
    \cup {[fn |-> "log_event", session_id |-> "s1", event |-> "done",
           detail |-> None]}

\* Number of records the call adds to its session
NumRecords(call) ==
    IF call.fn = "save_turns" THEN Len(call.turns) ELSE 1

\* Whether building the i-th (1-based) record of the call raises: save_turns
\* reads t.speaker_id, t.emotion, t.start_time and t.end_time (AttributeError
\* when the turn has none), save_analytics calls analysis.get (AttributeError
\* when analysis is no dict)
BuildRaises(call, i) ==
    IF call.fn = "save_turns"
    THEN ~({"speaker_id", "role", "original_text", "language", "emotion",
            "start_time", "end_time"} \subseteq DOMAIN call.turns[i])
    ELSE IF call.fn = "save_analytics" THEN ~call.analysis.is_dict
    ELSE FALSE

\* The i-th record of the call and how it enters the session
BuildRecord(call, i) ==
    IF call.fn = "save_session"
    THEN [op |-> "merge", table |-> "sessions", key |-> call.session_id,
          row |-> [domain |-> call.domain, input_type |-> call.input_type,
                   risk_score |-> None, escalation_level |-> None,
                   call_outcome |-> None]]
    ELSE IF call.fn = "save_turns"
    THEN [op |-> "add", table |-> "conversation_turns",
          key |-> call.session_id,
          row |-> [turn_index |-> i - 1,
                   speaker_id |-> call.turns[i].speaker_id,
                   role |-> call.turns[i].role,
                   original_text |-> call.turns[i].original_text,
                   language |-> call.turns[i].language,
                   emotion |-> call.turns[i].emotion,
                   start_time |-> call.turns[i].start_time,
                   end_time |-> call.turns[i].end_time]]
    ELSE IF call.fn = "save_analytics"
    THEN [op |-> "merge", table |-> "analytics_results",
          key |-> call.session_id,
          row |-> [risk_score |-> call.analysis.risk_score]]
    ELSE [op |-> "add", table |-> "audit_logs", key |-> call.session_id,
          row |-> [event |-> call.event, detail |-> call.detail]]

\* The rows after a commit of the records of the session: a merged record
\* takes the place of the row of its table and key, an added one is new
RECURSIVE Committed(_, _)
Committed(rows, records) ==
    IF records = <<>> THEN rows
    ELSE LET rec == Head(records)
             same(r) == r.table = rec.table /\ r.key = rec.key
             kept == IF rec.op = "merge"
                     THEN SelectSeq(rows, LAMBDA r : ~same(r))
                     ELSE rows
         IN  Committed(Append(kept, [table |-> rec.table, key |-> rec.key,
                                     row |-> rec.row]),
                       Tail(records))

\* Mutant: the session is opened before the try block
InsideTryAfterOpen(stage) == stage \in {"build", "add", "commit", "close"}

\* The stages of a storage function that its try block covers (all of them)
InsideTry(stage) ==
    stage \in {"open", "build", "add", "commit", "close"}

\* What the function returns from its except branch, and at its end
ExceptValue(call) == IF call.fn = "log_event" THEN None ELSE False
ReturnValue(call) == IF call.fn = "log_event" THEN None ELSE True

InitStorage ==
    /\ StorageIdle
    /\ RunIdle /\ ProcIdle /\ CacheIdle /\ FnIdle

\* A storage function is called
StorageCall ==
    /\ db_pc \in {"idle", "returned"}
    /\ Len(db_rows) <= MaxStoredTurns
    /\ db_call' \in StorageCalls
    /\ db_pc' = "open"
    /\ db_session' = <<>>
    /\ db_result' = <<>>
    /\ db_log' = <<>>
    /\ UNCHANGED <<db_rows, run_vars, proc_vars, cache_vars, fn_vars>>

\* The stage fails: the exception goes to the except branch if the try
\* block covers the stage, and leaves the function if not
Raised(stage) ==
    /\ db_log' = Append(db_log, [op |-> stage, ok |-> FALSE])
    /\ db_pc' = IF InsideTry(stage) THEN "except" ELSE "raised"
    /\ UNCHANGED <<db_call, db_session, db_rows, db_result>>

Done(stage) == db_log' = Append(db_log, [op |-> stage, ok |-> TRUE])

\* "with SessionLocal() as db"
OpenSession ==
    /\ db_pc = "open"
    /\ \/ /\ Done("open")
          /\ db_pc' = "body"
          /\ UNCHANGED <<db_call, db_session, db_rows, db_result>>
       \/ Raised("open")
    /\ UNCHANGED <<run_vars, proc_vars, cache_vars, fn_vars>>

\* The next record is built and added to (or merged into) the session
AddRecord ==
    /\ db_pc = "body"
    /\ Len(db_session) < NumRecords(db_call)
    /\ LET i == Len(db_session) + 1
       IN  IF BuildRaises(db_call, i) THEN Raised("build")
           ELSE \/ /\ Done("add")
                   /\ db_session' = Append(db_session, BuildRecord(db_call, i))
                   /\ UNCHANGED <<db_call, db_pc, db_rows, db_result>>
                \/ Raised("add")
    /\ UNCHANGED <<run_vars, proc_vars, cache_vars, fn_vars>>

\* db.commit()
Commit ==
    /\ db_pc = "body"
    /\ Len(db_session) = NumRecords(db_call)
    /\ \/ /\ Done("commit")
          /\ db_rows' = Committed(db_rows, db_session)
          /\ db_pc' = "exit"
          /\ UNCHANGED <<db_call, db_session, db_result>>
       \/ Raised("commit")
    /\ UNCHANGED <<run_vars, proc_vars, cache_vars, fn_vars>>

\* The end of the with block closes the session; then "return True"
ExitSession ==
    /\ db_pc = "exit"
    /\ \/ /\ Done("close")
          /\ db_result' = <<ReturnValue(db_call)>>
          /\ db_pc' = "returned"
          /\ db_session' = <<>>
          /\ UNCHANGED <<db_call, db_rows>>
       \/ Raised("close")
    /\ UNCHANGED <<run_vars, proc_vars, cache_vars, fn_vars>>

\* "except Exception as e": the warning is logged, False is returned
Except ==
    /\ db_pc = "except"
    /\ db_result' = <<ExceptValue(db_call)>>
    /\ db_pc' = "returned"
    /\ db_session' = <<>>
    /\ UNCHANGED <<db_call, db_rows, db_log>>
    /\ UNCHANGED <<run_vars, proc_vars, cache_vars, fn_vars>>

NextStorage ==
    \/ StorageCall
    \/ OpenSession
    \/ AddRecord
    \/ Commit
    \/ ExitSession
    \/ Except

SpecStorage == InitStorage /\ [][NextStorage]_vars

(***************************************************************************)
(* Calls of _resolve_role, as the loop of run_text_pipeline makes them for *)
(* the labels of its turns (lines 151 and 155)                             *)
(***************************************************************************)
\* Most calls followed
MaxRoleCalls == 2

\* A word with a capital first letter, and between whitespace
Capitalized(word) == <<UpperChar(Head(word))>> \o Tail(word)
Padded(word) == <<" ">> \o word \o <<"\t">>

\* Labels: every alias in four spellings, labels of several words that
\* hold an alias, and labels that hold none
RoleLabels ==
    UNION {{a, Capitalized(a), Upper(a), Padded(Upper(a))} :
              a \in DOMAIN _ROLE_MAP}
    \cup { <<"B","a","n","k"," ","A","g","e","n","t">>,
           <<"a","g","e","n","t"," ","r","e","p">>,
           <<"c","u","s","t","o","m","e","r"," ","c","a","r","e">>,
           <<"a","g","e","n","t","s">>,
           <<"u","s","e">>,
           <<"B","o","b">>,
           <<"u","n","k","n","o","w","n">>,
           <<"U","s","e","r"," "," ","X">> }

InitRole ==
    /\ fn_name = "_resolve_role"
    /\ fn_arg = <<>>
    /\ fn_result = <<>>
    /\ RunIdle /\ ProcIdle /\ CacheIdle /\ StorageIdle

\* One more call: its label and the role returned are appended
ResolveRole ==
    /\ fn_name = "_resolve_role"
    /\ Len(fn_arg) < MaxRoleCalls
    /\ \E label \in RoleLabels :
          /\ fn_arg' = Append(fn_arg, label)
          /\ fn_result' = Append(fn_result, _resolve_role(label))
    /\ UNCHANGED <<fn_name, run_vars, proc_vars, cache_vars, storage_vars>>

NextRole == ResolveRole

SpecRole == InitRole /\ [][NextRole]_vars

(***************************************************************************)
(* Calls of clean_text (nlp_processor.py lines 80-90): a first call on a   *)
(* text, then calls on the result of the call before                       *)
(***************************************************************************)
\* Longest text, in characters, and most calls followed
MaxTextLen == 4
MaxCleanCalls == 2

\* Characters of the texts: letters of both cases, whitespace, a control
\* character that is no whitespace, and a pair that NFC composes
TextChars == {"A", "b", "e", COMBINING_ACUTE, " ", "\t", "\n", US, BEL}

Texts == UNION {[1..n -> TextChars] : n \in 0..MaxTextLen}

InitClean ==
    /\ fn_name = "clean_text"
    /\ fn_arg \in {<<text>> : text \in Texts}
    /\ fn_result = <<>>
    /\ RunIdle /\ ProcIdle /\ CacheIdle /\ StorageIdle

\* One call: on the text first, on the last result afterwards
CleanText ==
    /\ fn_name = "clean_text"
    /\ Len(fn_result) < MaxCleanCalls
    /\ LET text == fn_arg[Len(fn_arg)]
       IN  /\ fn_result' = Append(fn_result, clean_text(text))
           /\ fn_arg' = IF Len(fn_result) + 1 < MaxCleanCalls
                        THEN Append(fn_arg, clean_text(text))
                        ELSE fn_arg
    /\ UNCHANGED <<fn_name, run_vars, proc_vars, cache_vars, storage_vars>>

NextClean == CleanText

SpecClean == InitClean /\ [][NextClean]_vars

(***************************************************************************)
(* Several calls of run_text_pipeline in one process (section 5).  Each    *)
(* call has its own locals (lines 139-142); the calls share the lru_cache  *)
(* of _get_pipeline.  A call of the cached function that misses runs the   *)
(* body of _get_pipeline outside of any lock, so other calls take steps    *)
(* while a pipeline loads.                                                 *)
(***************************************************************************)
Runs == {1, 2}

\* Transcripts of the concurrent runs
RunTranscripts ==
    { <<LineAgent, LineAgentLower>>,
      <<LineCustomer, LineAgent>>,
      <<LineAgent, LineContinuation, LineAgent>>,
      <<LineContinuation>> }

\* The locals of a call of run_text_pipeline at its entry
NewRun(t) ==
    [transcript |-> t, pc |-> "start", raw_turns |-> <<>>,
     turn_langs |-> <<>>, call_dominant_lang |-> "", idx |-> 0,
     role_counter |-> <<>>, seen_speakers |-> <<>>,
     processed_turns |-> <<>>, all_entities |-> <<>>, output |-> NoOutput,
     speaker_ids |-> <<>>]

\* Executions of the body of _get_pipeline so far, per language
NoLoads == [l \in STANZA_SUPPORTED |-> [started |-> 0, failed |-> 0]]

InitRuns ==
    /\ runs \in [Runs -> {NewRun(t) : t \in RunTranscripts}]
    /\ loads = NoLoads
    /\ RunIdle /\ CacheIdle /\ StorageIdle /\ FnIdle

\* Stage 1 of run r
RunParse(r) ==
    /\ runs[r].pc = "start"
    /\ LET turns == _parse_turns(runs[r].transcript)
       IN  runs' = [runs EXCEPT ![r].raw_turns = turns,
                                ![r].pc = ParseStage(turns)]
    /\ UNCHANGED <<loads, run_vars, cache_vars, storage_vars, fn_vars>>

\* Stage 2 of run r (lines 132-142): the language of every turn, the
\* dominant language, the empty registry
RunDetect(r) ==
    /\ runs[r].pc = "detect"
    /\ \E langs \in [DOMAIN runs[r].raw_turns -> DetectResults],
          dom \in DominantResults :
          runs' = [runs EXCEPT ![r].turn_langs = langs,
                               ![r].call_dominant_lang = dom,
                               ![r].processed_turns = <<>>,
                               ![r].all_entities = <<>>,
                               ![r].role_counter = <<>>,
                               ![r].seen_speakers = <<>>,
                               ![r].idx = 0,
                               ![r].pc = "loop"]
    /\ UNCHANGED <<loads, run_vars, cache_vars, storage_vars, fn_vars>>

\* Lines 149-156 on the locals rr of a run
Allocated(rr) ==
    LET alloc == AllocateSpeaker(rr.raw_turns[rr.idx + 1][1],
                                 rr.role_counter, rr.seen_speakers)
    IN  [rr EXCEPT !.role_counter = alloc.role_counter,
                   !.seen_speakers = alloc.seen_speakers,
                   !.speaker_ids = Append(@, alloc.speaker_id)]

\* Lines 160-173 on the locals rr of a run, process_text having returned
TurnAppended(rr, nlp_result) ==
    LET label == rr.raw_turns[rr.idx + 1][1]
        text == rr.raw_turns[rr.idx + 1][2]
        lang == rr.turn_langs[rr.idx + 1][1]
        conf == rr.turn_langs[rr.idx + 1][2]
    IN  [rr EXCEPT
           !.processed_turns =
               Append(@, MakeTurn(rr.idx, label, _resolve_role(label), text,
                                  lang, conf, nlp_result)),
           !.all_entities = @ \o nlp_result.entities,
           !.idx = @ + 1,
           !.pc = IF rr.idx + 1 = Len(rr.raw_turns) THEN "dedupe" ELSE "loop"]

\* The language whose pipeline the current turn of rr asks for
TurnNlpLang(rr) == _resolve_nlp_lang(rr.turn_langs[rr.idx + 1][1])

\* One iteration of the loop of run r whose _get_pipeline call hits the cache
RunTurn(r) ==
    /\ runs[r].pc = "loop"
    /\ CacheHas(lru_cache, TurnNlpLang(runs[r]))
    /\ \E outcome \in NlpOutcomes({TurnNlpLang(runs[r])}, TurnNlpLang(runs[r])) :
          LET rr == runs[r]
              text == rr.raw_turns[rr.idx + 1][2]
              lang == rr.turn_langs[rr.idx + 1][1]
          IN  runs' = [runs EXCEPT ![r] =
                          TurnAppended(Allocated(rr),
                                       process_text(text, lang, outcome))]
    /\ lru_cache' = CacheHit(lru_cache, TurnNlpLang(runs[r]))
    /\ UNCHANGED <<loads, load_history, last_call, run_vars, storage_vars,
                   fn_vars>>

\* An iteration of run r up to the _get_pipeline call that misses the cache:
\* the body of _get_pipeline starts
RunLoadBegin(r) ==
    /\ runs[r].pc = "loop"
    /\ ~CacheHas(lru_cache, TurnNlpLang(runs[r]))
    /\ runs' = [runs EXCEPT ![r] = [Allocated(runs[r]) EXCEPT !.pc = "loading"]]
    /\ loads' = [loads EXCEPT ![TurnNlpLang(runs[r])].started = @ + 1]
    /\ UNCHANGED <<run_vars, cache_vars, storage_vars, fn_vars>>

\* The body of _get_pipeline ends, by returning (the pipeline is stored) or
\* by raising, and the iteration of run r goes on to its end
RunLoadEnd(r) ==
    /\ runs[r].pc = "loading"
    /\ \E outcome \in NlpOutcomes({}, TurnNlpLang(runs[r])) :
          LET rr == runs[r]
              text == rr.raw_turns[rr.idx + 1][2]
              lang == rr.turn_langs[rr.idx + 1][1]
              nlp_lang == TurnNlpLang(rr)
          IN  /\ runs' = [runs EXCEPT ![r] =
                             TurnAppended(rr, process_text(text, lang, outcome))]
              /\ IF outcome.kind = "load_failed"
                 THEN /\ loads' = [loads EXCEPT ![nlp_lang].failed = @ + 1]
                      /\ lru_cache' = lru_cache
                 ELSE /\ loads' = loads
                      /\ lru_cache' = CacheStore(lru_cache, nlp_lang)
    /\ UNCHANGED <<load_history, last_call, run_vars, storage_vars, fn_vars>>

\* Lines 175-196 of run r
RunFinish(r) ==
    /\ runs[r].pc = "dedupe"
    /\ runs' = [runs EXCEPT
                  ![r].output =
                      << [raw_transcript |-> runs[r].transcript,
                          dominant_language |-> runs[r].call_dominant_lang,
                          turns |-> runs[r].processed_turns,
                          all_entities |-> Dedupe(runs[r].all_entities, {}, <<>>),
                          speaker_count |-> UniqueSpeakers(runs[r].seen_speakers)] >>,
                  ![r].pc = "done"]
    /\ UNCHANGED <<loads, run_vars, cache_vars, storage_vars, fn_vars>>

NextRuns ==
    \/ \E r \in Runs : RunParse(r)
    \/ \E r \in Runs : RunDetect(r)
    \/ \E r \in Runs : RunTurn(r)
    \/ \E r \in Runs : RunLoadBegin(r)
    \/ \E r \in Runs : RunLoadEnd(r)
    \/ \E r \in Runs : RunFinish(r)

SpecRuns == InitRuns /\ [][NextRuns]_vars

(***************************************************************************)
(* What the claims speak of, stated on the transcript itself               *)
(***************************************************************************)
\* A non-blank line that matches the label pattern
IsLabelLine(raw_line) ==
    Strip(raw_line) # <<>> /\ TurnReMatches(Strip(raw_line))

LabelLineIndexes(t) == {i \in DOMAIN t : IsLabelLine(t[i])}
NumLabelLines(t) == Cardinality(LabelLineIndexes(t))
HasLabelLine(t) == \E i \in DOMAIN t : IsLabelLine(t[i])

\* Index in t of its k-th label line
KthLabelLine(t, k) ==
    CHOOSE i \in LabelLineIndexes(t) :
        Cardinality({j \in LabelLineIndexes(t) : j < i}) = k - 1

\* Index of the line that ends the k-th turn: the next label line, or the end
TurnEnd(t, k) ==
    IF k < NumLabelLines(t) THEN KthLabelLine(t, k + 1) ELSE Len(t) + 1

\* Text of a label line before and after its first colon, trimmed
LabelOf(raw_line) ==
    Strip(SubSeq(raw_line, 1, FirstColon(raw_line) - 1))
RemainderOf(raw_line) ==
    Strip(SubSeq(raw_line, FirstColon(raw_line) + 1, Len(raw_line)))

NotBlank(line) == line # <<>>

\* The non-blank lines between the k-th label line and the end of its turn,
\* trimmed, in input order
ContinuationLines(t, k) ==
    LET p == KthLabelLine(t, k)
        n == TurnEnd(t, k) - p - 1
    IN  SelectSeq([j \in 1..n |-> Strip(t[p + j])], NotBlank)

\* The remainder of the k-th label line followed by its continuation lines
TurnLines(t, k) == <<RemainderOf(t[KthLabelLine(t, k)])>> \o ContinuationLines(t, k)

\* The state in which _parse_turns has just returned (raw_turns is assigned
\* there and nowhere else)
JustParsed == pc = "error" \/ (pc = "detect" /\ turn_langs = <<>>)
Returned == pc = "done"

\* C1: when the transcript has a label-matching line the run returns an
\* output (it does not end in the parse error) and the output has as many
\* turns as the transcript has label-matching lines.
C1_TurnCountIsLabelLineCount ==
    /\ pc = "error" => ~HasLabelLine(transcript)
    /\ Returned => Len(output[1].turns) = NumLabelLines(transcript)

\* C1 witness: a returned run whose transcript has two label lines and a
\* continuation line
C1_Witness ==
    /\ Returned
    /\ NumLabelLines(transcript) = 2
    /\ \E i \in DOMAIN transcript :
          /\ ~IsLabelLine(transcript[i]) /\ Strip(transcript[i]) # <<>>
          /\ \E j \in LabelLineIndexes(transcript) : j < i

\* C2 as stated: the text of the k-th turn is the remainder of the k-th label
\* line and its continuation lines joined by one space; labels in line order.
C2_TextIsJoinedLines ==
    JustParsed =>
        /\ Len(raw_turns) = NumLabelLines(transcript)
        /\ \A k \in DOMAIN raw_turns :
              /\ raw_turns[k][1] = LabelOf(transcript[KthLabelLine(transcript, k)])
              /\ raw_turns[k][2] = Join(TurnLines(transcript, k), <<" ">>)

\* C2 amended: the joined text is trimmed, so an empty remainder leaves no
\* leading space before the first continuation line.
C2_TextIsTrimmedJoinedLines ==
    JustParsed =>
        /\ Len(raw_turns) = NumLabelLines(transcript)
        /\ \A k \in DOMAIN raw_turns :
              /\ raw_turns[k][1] = LabelOf(transcript[KthLabelLine(transcript, k)])
              /\ raw_turns[k][2] =
                    Strip(Join(TurnLines(transcript, k), <<" ">>))

\* C2 witness: a parsed transcript that starts with a non-label line and has
\* a label line with an empty remainder followed by a continuation line
C2_Witness ==
    /\ JustParsed
    /\ transcript # <<>>
    /\ Strip(transcript[1]) # <<>> /\ ~IsLabelLine(transcript[1])
    /\ \E k \in DOMAIN raw_turns :
          /\ RemainderOf(transcript[KthLabelLine(transcript, k)]) = <<>>
          /\ ContinuationLines(transcript, k) # <<>>
          /\ raw_turns[k][2] = <<"s","o"," "," ","9",":","x">>

\* Whether turn record tr is built from the i-th (1-based) raw turn
BuiltFrom(tr, i) ==
    /\ tr.turn_index = i - 1
    /\ tr.speaker_label = raw_turns[i][1]
    /\ tr.original_text = raw_turns[i][2]

\* C3: the turn_index values are 0, 1, ..., len(turns)-1 in order and the
\* turn with index i is built from the i-th raw turn.
C3_TurnIndexesAreDense ==
    /\ \A i \in DOMAIN processed_turns : BuiltFrom(processed_turns[i], i)
    /\ Returned =>
          /\ Len(output[1].turns) = Len(raw_turns)
          /\ \A i \in DOMAIN output[1].turns : BuiltFrom(output[1].turns[i], i)

C3_Witness == Returned /\ Len(output[1].turns) = 3

\* C4: a turn whose label is already in the registry gets the recorded id
\* and leaves registry and counters as they are; all turns of one label
\* hold one id.
C4_SameLabelSameId ==
    [][(pc = "loop" /\ idx' = idx + 1) =>
          LET label == raw_turns[idx + 1][1]
          IN  /\ label \in DOMAIN seen_speakers =>
                    /\ seen_speakers' = seen_speakers
                    /\ role_counter' = role_counter
                    /\ speaker_id_log'[idx + 1] = seen_speakers[label]
              /\ \A i, j \in DOMAIN speaker_id_log' :
                    raw_turns[i][1] = raw_turns[j][1]
                       => speaker_id_log'[i] = speaker_id_log'[j]]_vars

\* C4 witness: a label met again after a turn of another label
C4_Witness ==
    /\ Len(speaker_id_log) = 3
    /\ raw_turns[1][1] = raw_turns[3][1]
    /\ raw_turns[1][1] # raw_turns[2][1]
    /\ speaker_id_log[1] = speaker_id_log[3]

\* C5: the registry is injective: two distinct labels never hold one id.
C5_RegistryInjective ==
    \A l1, l2 \in DOMAIN seen_speakers :
        l1 # l2 => seen_speakers[l1] # seen_speakers[l2]

\* C5 witness: two labels in the registry that differ only in case
C5_Witness ==
    \E l1, l2 \in DOMAIN seen_speakers :
        l1 # l2 /\ Lower(l1) = Lower(l2)
        /\ _resolve_role(l1) = _resolve_role(l2)

\* Position of the first turn with this label
FirstTurnOf(label) ==
    CHOOSE i \in DOMAIN raw_turns :
        /\ raw_turns[i][1] = label
        /\ \A j \in 1..(i - 1) : raw_turns[j][1] # label

RoleKeys == {Upper(Role_agent), Upper(Role_customer), Upper(Role_unknown)}

\* C6: the id of a label of role R is R_UPPER_n, n the number of labels of
\* role R met before it; the ids of a role are R_0 .. R_(c-1), c its counter.
C6_IdsNumberedPerRole ==
    LET labels == DOMAIN seen_speakers
        key == [l \in labels |-> Upper(_resolve_role(l))]
        first == [l \in labels |-> FirstTurnOf(l)]
    IN  /\ \A l \in labels :
              seen_speakers[l] =
                 key[l] \o <<"_">>
                    \o Str(Cardinality({e \in labels :
                                          key[e] = key[l] /\ first[e] < first[l]}))
        /\ \A k \in RoleKeys :
              {seen_speakers[l] : l \in {l \in labels : key[l] = k}}
                 = {k \o <<"_">> \o Str(n) :
                       n \in 0..(CounterGet(role_counter, k) - 1)}

\* C6 witness: the turns Agent, Customer, Agent got AGENT_0, CUSTOMER_0,
\* AGENT_0
C6_Witness ==
    /\ Len(speaker_id_log) = 3
    /\ raw_turns[1][1] = <<"A","g","e","n","t">>
    /\ raw_turns[2][1] = <<"C","u","s","t","o","m","e","r">>
    /\ raw_turns[3][1] = <<"A","g","e","n","t">>
    /\ speaker_id_log = << <<"A","G","E","N","T","_","0">>,
                           <<"C","U","S","T","O","M","E","R","_","0">>,
                           <<"A","G","E","N","T","_","0">> >>

\* Sum of the counts of a Counter
RECURSIVE CounterTotal(_)
CounterTotal(counter) ==
    IF DOMAIN counter = {} THEN 0
    ELSE LET k == CHOOSE k \in DOMAIN counter : TRUE
         IN  counter[k]
               + CounterTotal([x \in DOMAIN counter \ {k} |-> counter[x]])

\* C7: speaker_count is the number of distinct labels of the parsed turns,
\* and the sum of the per-role counters at the end of the run.
C7_SpeakerCountIsDistinctLabels ==
    Returned =>
        /\ output[1].speaker_count =
              Cardinality({raw_turns[i][1] : i \in DOMAIN raw_turns})
        /\ output[1].speaker_count = CounterTotal(role_counter)

\* C7 witness: three turns of two labels of one role
C7_Witness ==
    /\ Returned
    /\ Len(raw_turns) = 3
    /\ output[1].speaker_count = 2
    /\ Cardinality({_resolve_role(raw_turns[i][1]) : i \in DOMAIN raw_turns}) = 1

\* C8: all_entities holds no two entries of equal text ignoring case and
\* equal label.
C8_NoDuplicateEntities ==
    Returned =>
        \A i, j \in DOMAIN output[1].all_entities :
            LET a == output[1].all_entities[i]
                b == output[1].all_entities[j]
            IN  (Lower(a.text) = Lower(b.text) /\ a.label = b.label) => i = j

\* C8 witness: the turns returned entities that repeat a text in another
\* case, within one turn and across two turns
C8_Witness ==
    /\ Returned
    /\ Len(all_entities) > Len(output[1].all_entities)
    /\ \E i, j \in DOMAIN processed_turns :
          i # j /\ processed_turns[i].entities # <<>>
                /\ processed_turns[j].entities # <<>>
    /\ \E i, j \in DOMAIN all_entities :
          /\ all_entities[i].text # all_entities[j].text
          /\ Lower(all_entities[i].text) = Lower(all_entities[j].text)
          /\ all_entities[i].label = all_entities[j].label

\* C9: a transcript without label-matching line ends in the parse error:
\* no output, and no language or NLP collaborator was called.
C9_NoLabelLineIsParseError ==
    (pc # "start" /\ ~HasLabelLine(transcript)) =>
        /\ pc = "error"
        /\ output = NoOutput
        /\ calls = <<>>
        /\ ~ENABLED Next

\* C9 witness: the parse error on a transcript that has non-blank lines
C9_Witness ==
    /\ pc = "error"
    /\ \E i \in DOMAIN transcript : Strip(transcript[i]) # <<>>

\* Whether the i-th turn record holds the degraded result of process_text
IsDegraded(tr, text) ==
    LET cleaned == clean_text(text)
    IN  /\ tr.cleaned_text = cleaned
        /\ tr.lemmatized_text = cleaned
        /\ tr.tokens = Split(cleaned)
        /\ tr.entities = <<>>

\* C10: a failure of the NLP collaborator, on loading or on processing, is
\* not propagated: the iteration still appends its turn, with lemmatized_text
\* equal to the cleaned text, tokens equal to its whitespace split and no
\* entities, and goes on to the next turn or to the return, which holds one
\* turn per raw turn.
C10_NlpFailureDegrades ==
    [][/\ pc = "loop" =>
            /\ Len(processed_turns') = idx + 1
            /\ Len(nlp_outcome_log') = idx + 1
            /\ pc' = (IF idx + 1 < Len(raw_turns) THEN "loop" ELSE "dedupe")
            /\ nlp_outcome_log'[idx + 1] \in {"load_failed", "nlp_failed"}
                  => IsDegraded(processed_turns'[idx + 1],
                                raw_turns[idx + 1][2])
       /\ pc = "dedupe" =>
            /\ pc' = "done"
            /\ Len(output'[1].turns) = Len(raw_turns)
            /\ output'[1].turns = processed_turns]_vars

\* C10 witness: a returned run of three turns on each of which the
\* collaborator failed, on loading and on processing, one of them with a
\* text of two words
C10_Witness ==
    /\ Returned
    /\ Len(output[1].turns) = 3
    /\ \E i \in DOMAIN nlp_outcome_log : nlp_outcome_log[i] = "load_failed"
    /\ \E i \in DOMAIN nlp_outcome_log : nlp_outcome_log[i] = "nlp_failed"
    /\ \A i \in DOMAIN nlp_outcome_log : nlp_outcome_log[i] # "doc"
    /\ \E i \in DOMAIN output[1].turns :
          /\ output[1].turns[i].original_text = <<"e",COMBINING_ACUTE," "," ","k">>
          /\ output[1].turns[i].tokens = << <<E_ACUTE>>, <<"k">> >>

\* C11: a failure of detect_language or of dominant_language does not abort
\* the run: a run that ended without output ended in the parse error, on a
\* transcript without label line.
C11_DetectorFailureNeverAborts ==
    (pc \in {"error", "raised"}) =>
        (pc = "error" /\ ~HasLabelLine(transcript))

\* The labels of the turns of transcript t, read off its label lines
LabelsOf(t) ==
    [k \in 1..NumLabelLines(t) |-> LabelOf(t[KthLabelLine(t, k)])]

\* The speaker id of the k-th of the turns with these labels: the role of
\* its label in capitals, and the number of distinct labels of that role
\* that occur before the first turn of its label
SpeakerIdOf(labels, k) ==
    LET first == CHOOSE i \in DOMAIN labels :
                    /\ labels[i] = labels[k]
                    /\ \A j \in 1..(i - 1) : labels[j] # labels[k]
        key == Upper(_resolve_role(labels[k]))
        earlier == {labels[j] : j \in {j \in 1..(first - 1) :
                                   Upper(_resolve_role(labels[j])) = key}}
    IN  key \o <<"_">> \o Str(Cardinality(earlier))

\* What a run of each transcript gives, from the transcript alone
RunResultOf ==
    [t \in RunTranscripts |->
        LET labels == LabelsOf(t)
        IN  [speaker_ids |-> [k \in DOMAIN labels |-> SpeakerIdOf(labels, k)],
             roles |-> [k \in DOMAIN labels |-> _resolve_role(labels[k])],
             labels |-> labels,
             speaker_count |-> Cardinality({labels[k] : k \in DOMAIN labels})]]

\* C12: whatever the other run does and has done, the speaker ids, roles and
\* turn indices a run has produced so far, and the speaker_count it returns,
\* are those its own transcript gives.
C12_RunsDoNotInterfere ==
    \A r \in DOMAIN runs :
        LET rr == runs[r]
            want == RunResultOf[rr.transcript]
        IN  /\ \A i \in DOMAIN rr.speaker_ids :
                  rr.speaker_ids[i] = want.speaker_ids[i]
            /\ \A i \in DOMAIN rr.processed_turns :
                  /\ rr.processed_turns[i].turn_index = i - 1
                  /\ rr.processed_turns[i].role = want.roles[i]
                  /\ rr.processed_turns[i].speaker_label = want.labels[i]
            /\ rr.pc = "done" =>
                  /\ rr.output[1].speaker_count = want.speaker_count
                  /\ Len(rr.output[1].turns) = Len(want.labels)
                  /\ Len(rr.speaker_ids) = Len(want.labels)

\* C12 witness: two runs interleaved, each within its second iteration while
\* the other is within its own, both having allocated an id for an agent
C12_Witness ==
    /\ DOMAIN runs = Runs
    /\ \A r \in Runs : runs[r].pc = "loading" /\ runs[r].idx = 1
    /\ runs[1].speaker_ids = << <<"A","G","E","N","T","_","0">>,
                                <<"A","G","E","N","T","_","1">> >>
    /\ runs[2].speaker_ids = << <<"C","U","S","T","O","M","E","R","_","0">>,
                                <<"A","G","E","N","T","_","0">> >>

\* C14: for each language at most one execution of the body of _get_pipeline
\* is ever started by the concurrent runs.  (A load that failed is left out
\* of the count: the language is judged by its loads that did not fail.)
C14_LoadIsAtomic ==
    \A l \in DOMAIN loads : loads[l].started - loads[l].failed <= 1

\* Whether a load of language l has succeeded
HasLoaded(l) == l \in DOMAIN load_history /\ load_history[l]

\* C13 as stated: a process_text call triggers a load exactly when it is the
\* first call for its (resolved) language: no later call for the language
\* loads again, not after an eviction and not after a failed load.
C13_LoadOnFirstCallOnly ==
    [][(last_call'.load # "none")
          <=> (last_call'.nlp_lang \notin DOMAIN load_history)]_vars

\* C13 amended: a process_text call triggers a load exactly when no load of
\* its (resolved) language has succeeded before; a loaded language stays in
\* the cache.
C13_NoLoadAfterLoaded ==
    [][/\ (last_call'.load # "none") <=> ~HasLoaded(last_call'.nlp_lang)
       /\ \A l \in DOMAIN load_history' :
             load_history'[l] => CacheHas(lru_cache', l)]_vars

\* C13 witness: the eight supported languages are loaded, the cache is full,
\* and the call for an unsupported code has used the cached English pipeline
C13_Witness ==
    /\ Len(lru_cache) = LRU_MAXSIZE
    /\ last_call # <<>>
    /\ last_call.lang = "ml" /\ last_call.nlp_lang = "en"
    /\ last_call.load = "none"
    /\ \A l \in STANZA_SUPPORTED : HasLoaded(l)

\* Whether an operation of the current storage call has failed, and whether
\* its commit has succeeded
DbFailed == \E i \in DOMAIN db_log : ~db_log[i].ok
DbCommitted == \E i \in DOMAIN db_log : db_log[i].op = "commit" /\ db_log[i].ok

\* C15: no failure while opening the session, building or adding records,
\* committing or closing leaves a storage function as an exception;
\* save_session, save_turns and save_analytics return False after any
\* failure and True only after a commit that succeeded (and then without
\* any failure); log_event returns None.
C15_StorageIsFailureTolerant ==
    /\ db_pc # "raised"
    /\ db_pc = "returned" =>
          IF db_call.fn = "log_event" THEN db_result = <<None>>
          ELSE /\ db_result \in {<<True>>, <<False>>}
               /\ DbFailed => db_result = <<False>>
               /\ db_result = <<True>> => DbCommitted
               /\ ~DbFailed => db_result = <<True>>
    /\ (db_pc # "returned" /\ db_pc # "idle") => db_result = <<>>

\* C15 witness: save_turns has returned False after the commit of two added
\* turn records failed
C15_Witness ==
    /\ db_pc = "returned"
    /\ db_call.fn = "save_turns"
    /\ Len(db_call.turns) = 2
    /\ db_result = <<False>>
    /\ \E i \in DOMAIN db_log : db_log[i].op = "commit" /\ ~db_log[i].ok
    /\ Cardinality({i \in DOMAIN db_log : db_log[i].op = "add"}) = 2

\* The words the claim lists, for the agent and for the customer
C16_AgentWords ==
    { <<"a","g","e","n","t">>,
      <<"r","e","p","r","e","s","e","n","t","a","t","i","v","e">>,
      <<"r","e","p">>, <<"b","a","n","k","e","r">>,
      <<"o","f","f","i","c","e","r">>,
      <<"e","x","e","c","u","t","i","v","e">>,
      <<"s","u","p","p","o","r","t">> }
C16_CustomerWords ==
    { <<"c","u","s","t","o","m","e","r">>, <<"c","l","i","e","n","t">>,
      <<"c","a","l","l","e","r">>, <<"u","s","e","r">> }

\* C16: every call of _resolve_role returns agent when the trimmed,
\* lower-cased label is one of the seven agent words, customer when it is one
\* of the four customer words, unknown for any other label; calls with one
\* label, or with labels that differ in case only, return one role.
C16_RoleIsFunctionOfLabel ==
    /\ \A i \in DOMAIN fn_result :
          LET word == Strip(Lower(fn_arg[i]))
          IN  fn_result[i] =
                 IF word \in C16_AgentWords THEN Role_agent
                 ELSE IF word \in C16_CustomerWords THEN Role_customer
                 ELSE Role_unknown
    /\ \A i, j \in DOMAIN fn_result :
          Lower(fn_arg[i]) = Lower(fn_arg[j]) => fn_result[i] = fn_result[j]

\* C16 witness: a label of two words that holds an alias got unknown, and an
\* alias in capitals between whitespace got its role
C16_Witness ==
    /\ fn_name = "_resolve_role"
    /\ Len(fn_result) = 2
    /\ fn_arg[1] = <<"B","a","n","k"," ","A","g","e","n","t">>
    /\ fn_result[1] = Role_unknown
    /\ fn_arg[2] = <<" ","C","A","L","L","E","R","\t">>
    /\ fn_result[2] = Role_customer

\* A collaborator call as the history records it
CallOf(fn, turn) == [fn |-> fn, turn |-> turn]

IsPrefix(s, t) == Len(s) <= Len(t) /\ s = SubSeq(t, 1, Len(s))

\* The calls of a run of n turns in the order the claim gives:
\* dominant_language, then detect_language and process_text turn by turn
InterleavedCalls(n) ==
    <<CallOf("dominant_language", -1)>>
    \o [k \in 1..(2 * n) |->
          IF k % 2 = 1 THEN CallOf("detect_language", (k - 1) \div 2)
          ELSE CallOf("process_text", (k - 2) \div 2)]

\* The calls of a run of n turns stage by stage: detect_language for every
\* turn, dominant_language, process_text for every turn
StagedCalls(n) ==
    [k \in 1..n |-> CallOf("detect_language", k - 1)]
    \o <<CallOf("dominant_language", -1)>>
    \o [k \in 1..n |-> CallOf("process_text", k - 1)]

\* C17 as stated: after parsing dominant_language is called first, then for
\* each turn in order its detect_language call and then its process_text
\* call.
C17_CallsTurnByTurn ==
    /\ IsPrefix(calls, InterleavedCalls(Len(raw_turns)))
    /\ Returned => calls = InterleavedCalls(Len(raw_turns))

\* C17 amended: detect_language is called for every turn in turn order, then
\* dominant_language once, then process_text for every turn in turn order.
C17_CallsStageByStage ==
    /\ IsPrefix(calls, StagedCalls(Len(raw_turns)))
    /\ Returned => calls = StagedCalls(Len(raw_turns))

\* C17 witness: a returned run of three turns with its seven calls
C17_Witness ==
    /\ Returned
    /\ Len(raw_turns) = 3
    /\ Len(calls) = 7
    /\ calls[4].fn = "dominant_language"

\* The concatenation of the returned turns' entity lists, in turn order
TurnEntities == Flatten([i \in DOMAIN output[1].turns |->
                           output[1].turns[i].entities])

\* The key (lower-cased text, label) of an entity
KeyOf(ent) == <<Lower(ent.text), ent.label>>

\* The positions of a list of entities whose key occurs at no earlier one
FirstOccurrences(ents) ==
    {i \in DOMAIN ents : \A j \in 1..(i - 1) : KeyOf(ents[j]) # KeyOf(ents[i])}

\* C18: all_entities is the subsequence of the concatenation of the turns'
\* entity lists made of the first occurrence of every key (lower-cased text,
\* label): its k-th entry is, unchanged, the entity at the k-th position of
\* the concatenation that holds a key for the first time.
C18_AllEntitiesIsFirstOccurrences ==
    Returned =>
        LET first == FirstOccurrences(TurnEntities)
        IN  /\ Len(output[1].all_entities) = Cardinality(first)
            /\ \A i \in first :
                  output[1].all_entities[Cardinality({j \in first : j <= i})]
                      = TurnEntities[i]

\* C18 witness: two turns returned entities; a key occurs again with another
\* spelling and other offsets, after an entity of another key
C18_Witness ==
    /\ Returned
    /\ Len(output[1].all_entities) = 2
    /\ Len(TurnEntities) = 6
    /\ \E i, j, k \in DOMAIN TurnEntities :
          /\ i < j /\ j < k
          /\ KeyOf(TurnEntities[i]) = KeyOf(TurnEntities[k])
          /\ KeyOf(TurnEntities[i]) # KeyOf(TurnEntities[j])
          /\ TurnEntities[i] # TurnEntities[k]

\* Unicode category Cc among the characters of the model
IsControl(c) == c \in {"\t", "\n", "\r", "\f", US, BEL}

LettersOf(s) == SelectSeq(s, LAMBDA c : IsLetter(c))

\* C19: the result of clean_text holds no control character and no
\* whitespace but single spaces between two non-space characters, it
\* neither begins nor ends with whitespace, its letters are the letters of
\* the text in their case, and clean_text returns its own result unchanged.
C19_CleanTextNormalises ==
    fn_name = "clean_text" =>
        \A k \in DOMAIN fn_result :
            LET text == fn_arg[k]
                res == fn_result[k]
            IN  /\ \A i \in DOMAIN res : ~IsControl(res[i])
                /\ \A i \in DOMAIN res :
                      IsSpace(res[i]) =>
                          /\ res[i] = " "
                          /\ 1 < i /\ i < Len(res)
                          /\ ~IsSpace(res[i - 1]) /\ ~IsSpace(res[i + 1])
                /\ LettersOf(res) = LettersOf(NormalizeNFC(text))
                /\ k > 1 => res = text

\* Whether the k-th label line of t has an empty remainder and no
\* continuation line before the next label line or the end
OpensNoText(t, k) ==
    RemainderOf(t[KthLabelLine(t, k)]) = <<>> /\ ContinuationLines(t, k) = <<>>

\* C20: an open turn is appended only if it has accumulated text: the turns
\* parsed are as many as the label lines that have a remainder or a
\* continuation line, every turn has a non-empty text, and a transcript
\* whose label lines all have neither ends in the parse error.
C20_OnlyTurnsWithTextAppended ==
    JustParsed =>
        LET with_text == {k \in 1..NumLabelLines(transcript) :
                             ~OpensNoText(transcript, k)}
        IN  /\ Len(raw_turns) = Cardinality(with_text)
            /\ \A i \in DOMAIN raw_turns : raw_turns[i][2] # <<>>
            /\ with_text = {} => pc = "error"

\* Whether an operation on the database (opening the session, adding a
\* record, committing, closing) has failed in the current storage call
DbRefused ==
    \E i \in DOMAIN db_log :
        db_log[i].op \in {"open", "add", "commit", "close"} /\ ~db_log[i].ok

\* C21: when save_turns has returned from a call on a sequence of
\* ProcessedTurn and no operation on the database failed, it has returned
\* True and the last rows committed are one conversation-turn row per turn,
\* the k-th with turn_index k - 1.
C21_SaveTurnsStoresProcessedTurns ==
    (/\ db_pc = "returned"
     /\ db_call.fn = "save_turns"
     /\ \A i \in DOMAIN db_call.turns : db_call.turns[i] = StoredProcessedTurn
     /\ ~DbRefused)
    => LET n == Len(db_call.turns)
           base == Len(db_rows) - n
       IN  /\ db_result = <<True>>
           /\ base >= 0
           /\ \A k \in 1..n :
                 /\ db_rows[base + k].table = "conversation_turns"
                 /\ db_rows[base + k].row.turn_index = k - 1

====
